---- MODULE Spec2Model ----
(***************************************************************************)
(* Model of the dynamic tool factory of the voice agent (src/tools.py),    *)
(* its descriptor registry and configuration loader                        *)
(* (src/config_loader.py), and the hand-written built-in tools.            *)
(*                                                                         *)
(* Python dictionaries are functions whose DOMAIN is the set of keys that  *)
(* are present, so that dict.get(key, default) and dict[key] (KeyError)   *)
(* are modelled as the code evaluates them.  Strings are TLA+ strings and  *)
(* f-strings are concatenations.                                           *)
(***************************************************************************)
EXTENDS Integers, Sequences, FiniteSets, TLC

VARIABLES
    store,           \* the configuration store as the loader finds it
    configuration,   \* the dict load_configuration returned
    listed,          \* what get_enabled_tools returned for the loaded tool list
    tools_config,    \* the descriptor sequence handed to get_dynamic_tools
    dynamic_tools,   \* the list get_dynamic_tools returned
    build_log,       \* log records emitted while building the tool list
    inv,             \* the last tool invocation that ended: call, effects, result
    pending,         \* the invocation waiting for its external call, if any
    pc               \* "start", "loaded" once the configuration is read,
                     \* "serving" once the tool list is built

vars == <<store, configuration, listed, tools_config, dynamic_tools, build_log, inv,
          pending, pc>>

----------------------------------------------------------------------------
(* Bounds of the model *)

MaxTools == 2        \* longest descriptor sequence of the mixed configurations

----------------------------------------------------------------------------
(* Python primitives *)

\* dict.get(k, dflt)
Get(d, k, dflt) == IF k \in DOMAIN d THEN d[k] ELSE dflt

\* Python values that may be None
None == [t |-> "None"]
Str(s) == [t |-> "str", s |-> s]

\* bool(x) of a string
Truthy(s) == s # ""

UpperChar(c) ==
    CASE c = "a" -> "A" [] c = "b" -> "B" [] c = "c" -> "C" [] c = "d" -> "D"
      [] c = "e" -> "E" [] c = "f" -> "F" [] c = "g" -> "G" [] c = "h" -> "H"
      [] c = "i" -> "I" [] c = "j" -> "J" [] c = "k" -> "K" [] c = "l" -> "L"
      [] c = "m" -> "M" [] c = "n" -> "N" [] c = "o" -> "O" [] c = "p" -> "P"
      [] c = "q" -> "Q" [] c = "r" -> "R" [] c = "s" -> "S" [] c = "t" -> "T"
      [] c = "u" -> "U" [] c = "v" -> "V" [] c = "w" -> "W" [] c = "x" -> "X"
      [] c = "y" -> "Y" [] c = "z" -> "Z" [] OTHER -> c

RECURSIVE Upper(_)
\* str.upper()
Upper(s) ==
    IF s = "" THEN ""
    ELSE UpperChar(SubSeq(s, 1, 1)) \o Upper(SubSeq(s, 2, Len(s)))

RECURSIVE Join(_, _)
\* sep.join(parts)
Join(sep, parts) ==
    IF parts = <<>> THEN ""
    ELSE IF Len(parts) = 1 THEN parts[1]
    ELSE LET h == Len(parts) \div 2
         IN  Join(sep, SubSeq(parts, 1, h)) \o sep
                 \o Join(sep, SubSeq(parts, h + 1, Len(parts)))

RECURSIVE Repeat(_, _)
\* s * n
Repeat(s, n) ==
    IF n = 0 THEN ""
    ELSE IF n = 1 THEN s
    ELSE LET half == Repeat(s, n \div 2)
         IN  half \o half \o (IF n % 2 = 1 THEN s ELSE "")

\* s[:n]
Prefix(s, n) == IF Len(s) <= n THEN s ELSE SubSeq(s, 1, n)

----------------------------------------------------------------------------
(* build_tool_docstring *)

ParamDoc(param) ==
    LET param_name == param["name"]
        param_desc == Get(param, "description", "The " \o param_name \o " parameter")
        param_required == Get(param, "required", FALSE)
        param_default == Get(param, "defaultValue", "")
    IN  IF param_required
        THEN "    " \o param_name \o ": " \o param_desc
        ELSE "    " \o param_name \o ": " \o param_desc
                 \o " (optional, default: '" \o param_default \o "')"

build_tool_docstring(description, parameters) ==
    IF parameters = <<>> THEN description
    ELSE description \o "\n    \n    Args:\n"
             \o Join("\n", [i \in 1..Len(parameters) |-> ParamDoc(parameters[i])])
             \o "\n    \n    Returns:\n        str: API response in JSON format\n    "

----------------------------------------------------------------------------
(* create_dynamic_tool: the signature of the generated callable *)

\* a formal parameter declared without a default / with a default
Formal(name) == [name |-> name, hasDefault |-> FALSE]
FormalDefault(name, dflt) == [name |-> name, hasDefault |-> TRUE, default |-> dflt]

\* the declared signature (after `context`) of each per-arity tool_function
Signature(parameters) ==
    LET n == Len(parameters)
        required(i) == Get(parameters[i], "required", FALSE)
        default(i) == Get(parameters[i], "defaultValue", "")
    IN  IF n = 0 THEN [variadic |-> FALSE, formals |-> <<>>]
        ELSE IF n = 1 THEN
            IF required(1)
            THEN [variadic |-> FALSE, formals |-> <<Formal("param_value")>>]
            ELSE [variadic |-> FALSE,
                  formals |-> <<FormalDefault("param_value", Str(default(1)))>>]
        ELSE IF n = 2 THEN
            IF required(1) /\ required(2)
            THEN [variadic |-> FALSE,
                  formals |-> <<Formal("param1_value"), Formal("param2_value")>>]
            ELSE IF required(1) /\ ~required(2)
            THEN [variadic |-> FALSE,
                  formals |-> <<Formal("param1_value"),
                                FormalDefault("param2_value", Str(default(2)))>>]
            ELSE [variadic |-> FALSE,
                  formals |-> <<FormalDefault("param1_value", Str(default(1))),
                                FormalDefault("param2_value", Str(default(2)))>>]
        ELSE IF n = 3 THEN
            IF required(1) /\ required(2) /\ required(3)
            THEN [variadic |-> FALSE,
                  formals |-> <<Formal("param1_value"), Formal("param2_value"),
                                Formal("param3_value")>>]
            ELSE [variadic |-> FALSE,
                  formals |->
                    [i \in 1..3 |->
                       FormalDefault("param" \o ToString(i) \o "_value",
                                     IF ~required(i) THEN Str(default(i)) ELSE None)]]
        ELSE [variadic |-> TRUE, formals |-> <<>>]   \* variadic: args, kwargs

\* tool_function.__code__.replace(co_varnames=('context', param1_name, param2_name)):
\* the code object has more locals than the three names given.  An interpreter
\* that validates co_nlocals against co_varnames raises ValueError; an older
\* one accepts the tuple and renames the formals.
CodeReplaceOutcomes == {"raises", "renames"}

Renamed(sig, parameters) ==
    [sig EXCEPT !.formals =
        [i \in 1..Len(sig.formals) |->
            [sig.formals[i] EXCEPT !.name = parameters[i]["name"]]]]

Exc(type, msg) == [type |-> type, msg |-> msg]
LogRec(level, msg) == [level |-> level, msg |-> msg]

Built(tool, log) == [result |-> "tool", tool |-> tool, log |-> log]
Raised(exc, log) == [result |-> "raise", exc |-> exc, log |-> log]
ReturnedNone(log) == [result |-> "None", log |-> log]

MaxParams == 5       \* the factory builds callables for 0..MaxParams parameters

\* no ceiling: a variadic handler built whatever the number of parameters
WithinCeiling_Unbounded(n) == TRUE

\* the last branch that builds a handler: elif len(parameters) <= 5
WithinCeiling(n) == n <= MaxParams

\* create_dynamic_tool(tool_config) under the interpreter behaviour cr
create_dynamic_tool(tool_config, cr) ==
    IF "name" \notin DOMAIN tool_config THEN Raised(Exc("KeyError", "'name'"), <<>>)
    ELSE IF "description" \notin DOMAIN tool_config
        THEN Raised(Exc("KeyError", "'description'"), <<>>)
    ELSE IF "requestType" \notin DOMAIN tool_config
        THEN Raised(Exc("KeyError", "'requestType'"), <<>>)
    ELSE IF "requestUrl" \notin DOMAIN tool_config
        THEN Raised(Exc("KeyError", "'requestUrl'"), <<>>)
    ELSE
    LET tool_name == tool_config["name"]
        description == tool_config["description"]
        request_type == tool_config["requestType"]
        request_url == tool_config["requestUrl"]
        parameters == Get(tool_config, "parameters", <<>>)
        n == Len(parameters)
        required(i) == Get(parameters[i], "required", FALSE)
        fn(sig) == [kind |-> "dynamic",
                    name |-> tool_name,
                    doc |-> build_tool_docstring(description, parameters),
                    sig |-> sig,
                    tool_name |-> tool_name,
                    request_type |-> request_type,
                    request_url |-> request_url,
                    parameters |-> parameters]
        creating == LogRec("INFO", "Creating tool " \o tool_name \o " with "
                                       \o ToString(n) \o " parameters")
    IN  IF \E i \in 1..n : "name" \notin DOMAIN parameters[i]
        THEN Raised(Exc("KeyError", "'name'"), <<>>)
        ELSE IF n = 2 /\ required(1) /\ required(2)
        THEN IF cr = "raises"
             THEN Raised(Exc("ValueError", "code: co_nlocals != len(co_varnames)"), <<>>)
             ELSE Built(fn(Renamed(Signature(parameters), parameters)), <<>>)
        ELSE IF n <= 3 THEN Built(fn(Signature(parameters)), <<>>)
        ELSE IF WithinCeiling(n) THEN Built(fn(Signature(parameters)), <<creating>>)
        ELSE ReturnedNone(<<creating,
                 LogRec("WARNING", "Tool " \o tool_name \o " has " \o ToString(n)
                                       \o " parameters which may cause issues")>>)

----------------------------------------------------------------------------
(* get_dynamic_tools *)

BuiltinNames == {"search_web", "end_call", "send_email"}

Builtin(name) == [kind |-> "builtin", name |-> name]

\* the records logged while descriptor i was handled
Tagged(i, log) == [j \in 1..Len(log) |-> [src |-> i, rec |-> log[j]]]

\* the filter on `enabled` applied to generated tools only
BuildStep_BuiltinsUnfiltered(tool_config, i, cr) ==
    LET tool_name == Get(tool_config, "name", "")
    IN  IF tool_name \in BuiltinNames
        THEN [tools |-> <<[src |-> i, fn |-> Builtin(tool_name)]>>, log |-> <<>>]
        ELSE IF ~Get(tool_config, "enabled", TRUE) THEN [tools |-> <<>>, log |-> <<>>]
        ELSE IF Truthy(tool_name) /\ Truthy(Get(tool_config, "requestUrl", ""))
        THEN LET r == create_dynamic_tool(tool_config, cr)
             IN  IF r.result = "tool"
                 THEN [tools |-> <<[src |-> i, fn |-> r.tool]>>, log |-> Tagged(i, r.log)]
                 ELSE [tools |-> <<>>, log |-> Tagged(i, r.log)]
        ELSE [tools |-> <<>>, log |-> <<>>]

\* the name deciding only for descriptors without a URL: a descriptor named
\* like a built-in that has a requestUrl goes to create_dynamic_tool
BuildStep_UrlFirst(tool_config, i, cr) ==
    IF ~Get(tool_config, "enabled", TRUE) THEN [tools |-> <<>>, log |-> <<>>]
    ELSE
    LET tool_name == Get(tool_config, "name", "")
    IN  IF Truthy(tool_name) /\ Truthy(Get(tool_config, "requestUrl", ""))
        THEN LET r == create_dynamic_tool(tool_config, cr)
             IN  IF r.result = "tool"
                 THEN [tools |-> <<[src |-> i, fn |-> r.tool]>>, log |-> Tagged(i, r.log)]
                 ELSE IF r.result = "None"
                 THEN [tools |-> <<>>, log |-> Tagged(i, r.log)]
                 ELSE [tools |-> <<>>,
                       log |-> Tagged(i, r.log \o <<LogRec("ERROR",
                                  "Failed to create dynamic tool " \o tool_name
                                      \o ": " \o r.exc.msg)>>)]
        ELSE IF tool_name \in BuiltinNames
        THEN [tools |-> <<[src |-> i, fn |-> Builtin(tool_name)]>>, log |-> <<>>]
        ELSE [tools |-> <<>>, log |-> <<>>]

\* one iteration of the loop over tools_config: the tools appended and the
\* records logged, each tagged with the index i of the descriptor it comes from
BuildStep(tool_config, i, cr) ==
    IF ~Get(tool_config, "enabled", TRUE) THEN [tools |-> <<>>, log |-> <<>>]
    ELSE
    LET tool_name == Get(tool_config, "name", "")
    IN  IF tool_name \in BuiltinNames
        THEN [tools |-> <<[src |-> i, fn |-> Builtin(tool_name)]>>, log |-> <<>>]
        ELSE IF Truthy(tool_name) /\ Truthy(Get(tool_config, "requestUrl", ""))
        THEN LET r == create_dynamic_tool(tool_config, cr)
             IN  IF r.result = "tool"
                 THEN [tools |-> <<[src |-> i, fn |-> r.tool]>>, log |-> Tagged(i, r.log)]
                 ELSE IF r.result = "None"
                 THEN [tools |-> <<>>, log |-> Tagged(i, r.log)]
                 ELSE [tools |-> <<>>,
                       log |-> Tagged(i, r.log \o <<LogRec("ERROR",
                                  "Failed to create dynamic tool " \o tool_name
                                      \o ": " \o r.exc.msg)>>)]
        ELSE [tools |-> <<>>, log |-> <<>>]

\* a registry keyed by name: a later tool replaces an earlier one of its name
Appended_LastWins(first, rest) ==
    SelectSeq(first, LAMBDA t : \A k \in 1..Len(rest) : rest[k].fn.name # t.fn.name)
        \o rest

\* dynamic_tools.append(...): the tools of one iteration, then those of the
\* iterations after it
Appended(first, rest) == first \o rest

RECURSIVE BuildFrom(_, _, _)
BuildFrom(config, i, cr) ==
    IF i > Len(config) THEN [tools |-> <<>>, log |-> <<>>]
    ELSE LET step == BuildStep(config[i], i, cr)
             rest == BuildFrom(config, i + 1, cr)
         IN  [tools |-> Appended(step.tools, rest.tools), log |-> step.log \o rest.log]

\* one URL cell shared by the handlers: every generated tool requests the URL of
\* the descriptor built last
get_dynamic_tools_SharedUrl(config, cr) ==
    LET built == BuildFrom(config, 1, cr)
        generated == SelectSeq(built.tools, LAMBDA t : t.fn.kind = "dynamic")
        last == generated[Len(generated)].fn.request_url
    IN  [tools |-> [k \in 1..Len(built.tools) |->
                       IF built.tools[k].fn.kind = "dynamic"
                       THEN [built.tools[k] EXCEPT !.fn.request_url = last]
                       ELSE built.tools[k]],
         log |-> built.log]

get_dynamic_tools(config, cr) == BuildFrom(config, 1, cr)

----------------------------------------------------------------------------
(* JSON: response.json() and json.dumps(result, indent=2) *)

LogLimit == 500     \* characters of a response kept in a log line

JNull == [t |-> "null"]
JBool(b) == [t |-> "bool", b |-> b]
JNum(n) == [t |-> "num", n |-> n]
JStr(s) == [t |-> "str", s |-> s]
JArr(items) == [t |-> "arr", items |-> items]
JObj(members) == [t |-> "obj", members |-> members]   \* sequence of <<key, value>>

Quote(s) == "\"" \o s \o "\""

RECURSIVE Wire(_)
\* the compact text a server writes for a JSON value
Wire(v) ==
    CASE v.t = "null" -> "null"
      [] v.t = "bool" -> IF v.b THEN "true" ELSE "false"
      [] v.t = "num" -> ToString(v.n)
      [] v.t = "str" -> Quote(v.s)
      [] v.t = "arr" ->
            "[" \o Join(",", [i \in 1..Len(v.items) |-> Wire(v.items[i])]) \o "]"
      [] v.t = "obj" ->
            "{" \o Join(",", [i \in 1..Len(v.members) |->
                        Quote(v.members[i][1]) \o ":" \o Wire(v.members[i][2])]) \o "}"

RECURSIVE Dumps(_, _)
\* json.dumps(v, indent=2), at nesting level lvl
Dumps(v, lvl) ==
    LET pad(l) == Repeat("  ", l)
    IN  CASE v.t = "null" -> "null"
          [] v.t = "bool" -> IF v.b THEN "true" ELSE "false"
          [] v.t = "num" -> ToString(v.n)
          [] v.t = "str" -> Quote(v.s)
          [] v.t = "arr" ->
                IF v.items = <<>> THEN "[]"
                ELSE "[\n"
                     \o Join(",\n", [i \in 1..Len(v.items) |->
                                pad(lvl + 1) \o Dumps(v.items[i], lvl + 1)])
                     \o "\n" \o pad(lvl) \o "]"
          [] v.t = "obj" ->
                IF v.members = <<>> THEN "{}"
                ELSE "{\n"
                     \o Join(",\n", [i \in 1..Len(v.members) |->
                                pad(lvl + 1) \o Quote(v.members[i][1]) \o ": "
                                    \o Dumps(v.members[i][2], lvl + 1)])
                     \o "\n" \o pad(lvl) \o "}"

json_dumps(v) == Dumps(v, 0)

\* the JSON documents a server may answer with; the last is longer than LogLimit
LongArray == JArr([i \in 1..(LogLimit \div 2 + 1) |-> JNum(0)])

JsonDocs ==
    { JObj(<< <<"a", JNum(1)>> >>),
      JObj(<< <<"items", JArr(<<JNum(1), JStr("x")>>)>>, <<"ok", JBool(TRUE)>> >>),
      JArr(<<>>),
      JStr("ok"),
      JNull,
      LongArray }

\* the texts of the documents, computed once
JsonTexts == { <<Wire(v), v>> : v \in JsonDocs } \cup { <<json_dumps(v), v>> : v \in JsonDocs }
Pretty == [v \in JsonDocs |-> json_dumps(v)]

\* response.json(): the document whose compact or indented text the body is
JsonOf(text) == { p[2] : p \in { q \in JsonTexts : q[1] = text } }
ParsesAsJson(text) == JsonOf(text) # {}
response_json(text) == CHOOSE v \in JsonOf(text) : TRUE

LongText == Repeat("x", LogLimit + 1)

JsonBodies == { Wire(v) : v \in JsonDocs } \cup { json_dumps(JObj(<< <<"a", JNum(1)>> >>)) }
TextBodies == { "ok", "", "not found", LongText }

----------------------------------------------------------------------------
(* The environment of one tool invocation *)

OkStatus == 200
OtherStatuses == {201, 204, 404, 500}
ErrorBodies == { "not found", "", Wire(JObj(<< <<"a", JNum(1)>> >>)) }

Response(status_code, text) ==
    [kind |-> "response", status_code |-> status_code, text |-> text]
Fault(msg) == [kind |-> "fault", status_code |-> 0, text |-> msg]

HttpOutcomes ==
    { Response(OkStatus, b) : b \in JsonBodies \cup TextBodies }
      \cup { Response(st, b) : st \in OtherStatuses, b \in ErrorBodies }
      \cup { Fault("Connection refused"), Fault("") }

----------------------------------------------------------------------------
(* How the runtime calls a tool: positional and keyword arguments *)

\* the argument value the caller has for parameter i
ArgValue(i) == "arg" \o ToString(i)

\* context and the first k values positionally
Positional(k) == [mode |-> "positional", supplied |-> 1..k, keys |-> "none"]
\* context and the values of the parameters in S by keyword; the keys are the
\* names of the declared formals or the names of the descriptor's parameters
Keyword(S, keys) == [mode |-> "keyword", supplied |-> S, keys |-> keys]
\* context positionally and the values of the parameters in S by keyword
Mixed(S, keys) == [mode |-> "mixed", supplied |-> S, keys |-> keys]
\* no argument at all
NoArguments == [mode |-> "none", supplied |-> {}, keys |-> "none"]

KeywordSets(n) == { 1..k : k \in 0..n } \cup { (1..n) \ {j} : j \in 1..n }

Calls(n) ==
    { Positional(k) : k \in 0..n }
      \cup { Keyword(S, "formal") : S \in KeywordSets(n) }
      \cup { Keyword(1..n, "descriptor") }
      \cup { Mixed(S, "formal") : S \in KeywordSets(n) }
      \cup { Mixed(1..n, "descriptor") }
      \cup { NoArguments }

\* Python's binding of a call to the signature (context, formals...).
\* names[i] is the descriptor's name of parameter i.
Bind(formals, names, call) ==
    LET n == Len(formals)
        key(i) == IF call.keys = "formal" THEN formals[i].name ELSE names[i]
        given(j) == IF call.mode = "positional" THEN j \in call.supplied
                    ELSE \E i \in call.supplied : key(i) = formals[j].name
        value(j) == IF call.mode = "positional" THEN Str(ArgValue(j))
                    ELSE Str(ArgValue(CHOOSE i \in call.supplied :
                                          key(i) = formals[j].name))
    IN  IF call.mode = "none"
        THEN [ok |-> FALSE,
              exc |-> Exc("TypeError", "missing 1 required positional argument: 'context'")]
        ELSE IF call.mode \in {"keyword", "mixed"}
                  /\ \E i \in call.supplied :
                        \A j \in 1..n : formals[j].name # key(i)
        THEN [ok |-> FALSE, exc |-> Exc("TypeError", "got an unexpected keyword argument")]
        ELSE IF \E j \in 1..n : ~given(j) /\ ~formals[j].hasDefault
        THEN [ok |-> FALSE, exc |-> Exc("TypeError", "missing required positional argument")]
        ELSE [ok |-> TRUE,
              values |-> [j \in 1..n |->
                            IF given(j) THEN value(j) ELSE formals[j].default]]

----------------------------------------------------------------------------
(* Python dict with insertion order: a sequence of <<key, value>>, keys unique *)

HasKey(d, k) == \E i \in 1..Len(d) : d[i][1] = k
DictGet(d, k) == d[CHOOSE i \in 1..Len(d) : d[i][1] = k][2]
DictSet(d, k, v) ==
    IF HasKey(d, k)
    THEN [i \in 1..Len(d) |-> IF d[i][1] = k THEN <<k, v>> ELSE d[i]]
    ELSE Append(d, <<k, v>>)

RECURSIVE DictOf(_, _)
\* the dict holding keys[i]: values[i], later entries replacing earlier ones
DictOf(keys, values) ==
    IF keys = <<>> THEN <<>>
    ELSE DictSet(DictOf(SubSeq(keys, 1, Len(keys) - 1),
                        SubSeq(values, 1, Len(values) - 1)),
                 keys[Len(keys)], values[Len(values)])

Repr(v) == IF v.t = "None" THEN "None" ELSE "'" \o v.s \o "'"
ReprDict(d) ==
    "{" \o Join(", ", [i \in 1..Len(d) |-> "'" \o d[i][1] \o "': " \o Repr(d[i][2])]) \o "}"

----------------------------------------------------------------------------
(* The handler every generated tool_function shares *)

Unused == [kind |-> "unused", status_code |-> 0, text |-> ""]
NoExc == Exc("", "")

\* the record of one invocation
Outcome(entered, outcome, result, exc, data, effects, env, log) ==
    [entered |-> entered, outcome |-> outcome, result |-> result, exc |-> exc,
     data |-> data, effects |-> effects, env |-> env, log |-> log]

Returns(result, data, effects, env, log) ==
    Outcome(TRUE, "returned", result, NoExc, data, effects, env, log)
\* the call did not bind: the body was never entered
FailsToBind(exc) == Outcome(FALSE, "raised", "", exc, <<>>, <<>>, Unused, <<>>)
\* the body raised
Raises(exc, log) == Outcome(TRUE, "raised", "", exc, <<>>, <<>>, Unused, log)

HttpMethods == {"GET", "POST", "PUT", "DELETE"}
QueryMethods == {"GET", "DELETE"}

\* the mapping passed as query parameters whatever the method
HttpRequest_AlwaysParams(method, url, payload, data) ==
    IF ~payload THEN [op |-> "http", method |-> method, url |-> url]
    ELSE [op |-> "http", method |-> method, url |-> url, params |-> data]

\* requests.get/post/put/delete as the handler calls it; payload = FALSE is the
\* zero-parameter handler, which passes the URL alone
HttpRequest(method, url, payload, data) ==
    IF ~payload THEN [op |-> "http", method |-> method, url |-> url]
    ELSE IF method \in QueryMethods
    THEN [op |-> "http", method |-> method, url |-> url, params |-> data]
    ELSE [op |-> "http", method |-> method, url |-> url, json |-> data]

Truncated(text) == Prefix(text, LogLimit) \o (IF Len(text) > LogLimit THEN "..." ELSE "")

\* every 2xx status taken for success
IsSuccess_Any2xx(status_code) == status_code \div 100 = 2

\* response.status_code == 200
IsSuccess(status_code) == status_code = 200

\* the string cut for the log line returned as the result
SuccessResult_Truncated(text) ==
    Truncated(IF ParsesAsJson(text) THEN Pretty[response_json(text)] ELSE text)

\* the result of a successful response: pretty-printed JSON, else the raw text
SuccessResult(text) ==
    IF ParsesAsJson(text) THEN Pretty[response_json(text)] ELSE text

\* the result of any other response
ErrorResult(status_code, text) ==
    "Error: HTTP " \o ToString(status_code) \o " - " \o text

\* the result of a fault caught by `except Exception as e`
FaultResult(tool_name, e) ==
    "An error occurred while using " \o tool_name \o ": " \o e

\* a fault or a failure status followed by a second attempt
RequestsSent_RetryOnFailure(request, env) ==
    IF env.kind = "fault" \/ env.status_code # OkStatus
    THEN <<request, request>> ELSE <<request>>

\* the requests the try block issues: the one call of requests.get/post/put/
\* delete, whatever the network answers
RequestsSent(request, env) == <<request>>

\* the try block of tool_function
Handler(fn, payload, data, env, log) ==
    LET tool_name == fn.tool_name
        method == Upper(fn.request_type)
        making == LogRec("INFO", "Making " \o fn.request_type \o " request to: "
                                     \o fn.request_url)
        request == HttpRequest(method, fn.request_url, payload, data)
        sent == RequestsSent(request, env)
        received == LogRec("INFO", "Tool '" \o tool_name \o "' received HTTP "
                                       \o ToString(env.status_code))
        completed == LogRec("INFO", "Tool '" \o tool_name \o "' completed successfully")
        responded(text) == LogRec("INFO", "Tool '" \o tool_name \o "' response: "
                                              \o Truncated(text))
    IN  IF method \notin HttpMethods
        THEN LET error_msg == "Unsupported request type: " \o fn.request_type
             IN  Returns(error_msg, data, <<>>, Unused,
                         log \o <<making, LogRec("ERROR", "Tool '" \o tool_name
                                             \o "' failed: " \o error_msg)>>)
        ELSE IF env.kind = "fault"
        THEN Returns(FaultResult(tool_name, env.text), data, sent, env,
                     log \o <<making, LogRec("ERROR", "Tool '" \o tool_name
                                         \o "' exception: " \o env.text)>>)
        ELSE IF IsSuccess(env.status_code)
        THEN LET result == SuccessResult(env.text)
             IN  Returns(result, data, sent, env,
                         log \o <<making, received, completed, responded(result)>>)
        ELSE Returns(ErrorResult(env.status_code, env.text), data, sent, env,
                     log \o <<making, received,
                              LogRec("ERROR", "Tool '" \o tool_name \o "' failed: HTTP "
                                  \o ToString(env.status_code) \o " - " \o env.text)>>)

Invoked(tool_name, data) ==
    LogRec("INFO", "Tool '" \o tool_name \o "' invoked with parameters: " \o ReprDict(data))

\* a generated tool_function called with `call` while the network answers env
tool_function(fn, call, env) ==
    LET parameters == fn.parameters
        n == Len(parameters)
        names == [i \in 1..n |-> parameters[i]["name"]]
    IN  IF fn.sig.variadic
        THEN \* context = args[0]; param_values = args[1:]
             \* keyword arguments land in kwargs, which the handler never reads
             IF call.mode \in {"keyword", "none"}
             THEN Raises(Exc("IndexError", "tuple index out of range"), <<>>)
             ELSE LET data == DictOf(names,
                                 [i \in 1..n |->
                                    IF call.mode = "positional" /\ i \in call.supplied
                                    THEN Str(ArgValue(i))
                                    ELSE Str(Get(parameters[i], "defaultValue", ""))])
                  IN  Handler(fn, TRUE, data, env, <<Invoked(fn.tool_name, data)>>)
        ELSE LET b == Bind(fn.sig.formals, names, call)
             IN  IF ~b.ok THEN FailsToBind(b.exc)
                 ELSE IF n = 0
                 THEN Handler(fn, FALSE, <<>>, env,
                              <<LogRec("INFO", "Tool '" \o fn.tool_name
                                           \o "' invoked with no parameters")>>)
                 ELSE LET data == DictOf(names, b.values)
                      IN  Handler(fn, TRUE, data, env, <<Invoked(fn.tool_name, data)>>)

----------------------------------------------------------------------------
(* The hand-written tools *)

search_web_sig == <<Formal("query")>>
end_call_sig == <<FormalDefault("reason", Str("Call completed"))>>
send_email_sig == <<Formal("to_email"), Formal("subject"), Formal("message"),
                    FormalDefault("cc_email", None)>>

BuiltinSig(name) ==
    CASE name = "search_web" -> search_web_sig
      [] name = "end_call" -> end_call_sig
      [] name = "send_email" -> send_email_sig

FormalNames(formals) == [i \in 1..Len(formals) |-> formals[i].name]

\* search_web: env.kind is "results" or "fault"
SearchOutcomes == { [kind |-> "results", text |-> "Top results"],
                    [kind |-> "results", text |-> LongText],
                    [kind |-> "fault", text |-> "rate limited"] }

search_web(call, env) ==
    LET b == Bind(search_web_sig, FormalNames(search_web_sig), call)
    IN  IF ~b.ok THEN FailsToBind(b.exc)
        ELSE LET query == b.values[1].s
                 effects == <<[op |-> "search", query |-> query]>>
                 log == <<LogRec("INFO", "Tool 'search_web' invoked with parameters: {'query': '"
                                            \o query \o "'}"),
                          LogRec("INFO", "Making web search request via DuckDuckGo")>>
             IN  IF env.kind = "results"
                 THEN Returns(env.text, <<>>, effects, env,
                              log \o <<LogRec("INFO", "Tool 'search_web' completed successfully"),
                                       LogRec("INFO", "Tool 'search_web' response: "
                                                          \o Truncated(env.text))>>)
                 ELSE Returns("An error occurred while searching the web for '"
                                  \o query \o "'.",
                              <<>>, effects, env,
                              log \o <<LogRec("ERROR", "Tool 'search_web' exception: "
                                                           \o env.text)>>)

\* end_call: what generate_reply and each job_ctx.shutdown() attempt do.
\* "gone" is the fault of a session or room that no longer exists.
StepOutcomes == {"ok", "gone", "fault"}
FaultText(o) == IF o = "gone" THEN "room not found" ELSE "connection lost"

EndCallEnv(farewell, shutdown1, shutdown2) ==
    [kind |-> "end_call", farewell |-> farewell,
     shutdown1 |-> shutdown1, shutdown2 |-> shutdown2]

EndCallOutcomes ==
    { EndCallEnv("ok", "ok", "unused") }
      \cup { EndCallEnv("ok", s1, s2) : s1 \in StepOutcomes \ {"ok"}, s2 \in StepOutcomes }
      \cup { EndCallEnv(f, "unused", s2) : f \in StepOutcomes \ {"ok"}, s2 \in StepOutcomes }

\* the disconnect requested ahead of the goodbye
Attempted_ShutdownFirst(farewell, shutdown) == <<shutdown, farewell>>

\* the try block once generate_reply has returned: the farewell was requested,
\* then job_ctx.shutdown() is
Attempted(farewell, shutdown) == <<farewell, shutdown>>

\* the except branch left without asking for the disconnect again
Retried_GivesUp(effects, shutdown) == effects

\* the except branch: job_ctx.shutdown() is requested once more, after
\* whatever the try block had requested
Retried(effects, shutdown) == effects \o <<shutdown>>

end_call(call, env) ==
    LET b == Bind(end_call_sig, FormalNames(end_call_sig), call)
    IN  IF ~b.ok THEN FailsToBind(b.exc)
        ELSE
        LET reason == b.values[1].s
            farewell == [op |-> "generate_reply",
                         instructions |-> "Say a polite goodbye. Reason: " \o reason
                             \o ". Do NOT mention function names or special characters."]
            shutdown == [op |-> "shutdown"]
            goodbye == "Call ended: " \o reason \o ". Goodbye!"
            start == <<LogRec("INFO", "Tool 'end_call' invoked with reason: '" \o reason \o "'"),
                       LogRec("INFO", "Initiating call termination")>>
            disconnecting == LogRec("INFO", "Disconnecting agent from room...")
            \* the except branch: e is the first fault
            recover(e, effects, log) ==
                LET log2 == log \o <<LogRec("ERROR", "Error ending call: " \o e)>>
                IN  IF env.shutdown2 = "ok"
                    THEN Returns(goodbye, <<>>, Retried(effects, shutdown), env,
                                 log2 \o <<LogRec("INFO", "Call ended successfully: "
                                              \o reason \o " (after error recovery)")>>)
                    ELSE Returns("Error ending call: " \o e, <<>>,
                                 Retried(effects, shutdown), env, log2)
        IN  IF env.farewell # "ok"
            THEN recover(FaultText(env.farewell), <<farewell>>, start)
            ELSE IF env.shutdown1 # "ok"
            THEN recover(FaultText(env.shutdown1), Attempted(farewell, shutdown),
                         start \o <<disconnecting>>)
            ELSE Returns(goodbye, <<>>, Attempted(farewell, shutdown), env,
                         start \o <<disconnecting,
                                    LogRec("INFO", "Call ended successfully: " \o reason)>>)

\* send_email: what the SMTP relay does
EmailOutcomes == { [kind |-> k] : k \in {"sent", "auth", "smtp", "other"} }

send_email(call, env) ==
    LET b == Bind(send_email_sig, FormalNames(send_email_sig), call)
    IN  IF ~b.ok THEN FailsToBind(b.exc)
        ELSE
        LET to_email == b.values[1].s
            cc_email == b.values[4]
            recipients == IF cc_email.t = "str" /\ Truthy(cc_email.s)
                          THEN <<to_email, cc_email.s>> ELSE <<to_email>>
            effects == <<[op |-> "smtp", recipients |-> recipients,
                          subject |-> b.values[2].s, message |-> b.values[3].s]>>
        IN  CASE env.kind = "sent" ->
                    Returns("Email sent successfully to " \o to_email, <<>>, effects, env,
                            <<LogRec("INFO", "Email sent successfully to " \o to_email)>>)
              [] env.kind = "auth" ->
                    Returns("Email sending failed: Authentication error. Please check your Gmail credentials.",
                            <<>>, effects, env, <<LogRec("ERROR", "Gmail authentication failed")>>)
              [] env.kind = "smtp" ->
                    Returns("Email sending failed: SMTP error - relay refused", <<>>, effects, env,
                            <<LogRec("ERROR", "SMTP error occurred: relay refused")>>)
              [] OTHER ->
                    Returns("An error occurred while sending email: timed out", <<>>, effects, env,
                            <<LogRec("ERROR", "Error sending email: timed out")>>)

----------------------------------------------------------------------------
(* Descriptors: the configurations the model draws from *)

\* the dict holding only the keys in keys
Restrict(full, keys) == [k \in keys |-> full[k]]

ParamKeys == {"name", "type", "required", "description", "defaultValue"}

\* parameter i; drop names the keys the descriptor leaves out
Param(i, required, drop) ==
    Restrict([name |-> "p" \o ToString(i), type |-> "string", required |-> required,
              description |-> "value " \o ToString(i),
              defaultValue |-> "d" \o ToString(i)],
             ParamKeys \ drop)

\* defaultValue is set at the positions of the given parity and unset elsewhere
ParamList(flags, parity) ==
    [i \in 1..Len(flags) |->
        Param(i, flags[i], IF i % 2 = parity THEN {} ELSE {"defaultValue"})]


\* every combination of required and optional flags for every arity
ParamLists ==
    UNION { { ParamList(flags, 1) : flags \in [1..n -> BOOLEAN] } : n \in 0..MaxParams }
      \cup UNION { { ParamList(flags, 0) : flags \in [1..n -> BOOLEAN] } : n \in 1..3 }

\* a parameter without `required`, one list beyond the ceiling, one without a name
FewParamLists ==
    { <<>>,
      <<Param(1, TRUE, {})>>,
      <<Param(1, FALSE, {"required", "defaultValue"})>>,
      [i \in 1..4 |-> Param(i, i = 1, {})],
      [i \in 1..(MaxParams + 1) |-> Param(i, TRUE, {})],
      <<Param(1, TRUE, {"name"})>> }

DescriptorKeys ==
    {"id", "name", "description", "requestType", "requestUrl", "parameters", "enabled"}

Descriptor(name, requestType, requestUrl, parameters, enabled, drop) ==
    Restrict([id |-> name, name |-> name, description |-> "Calls " \o name,
              requestType |-> requestType, requestUrl |-> requestUrl,
              parameters |-> parameters, enabled |-> enabled],
             DescriptorKeys \ drop)

Url == "https://api.example.com/v1"

RequestTypes == {"GET", "POST", "PUT", "DELETE", "get", "Post", "PATCH", "BUILTIN"}

\* descriptors exercising the factory: every parameter list, every request type
FactoryDescs ==
    { Descriptor("get_weather", rt, Url, ps, TRUE, {"enabled"}) :
          rt \in {"GET", "POST"}, ps \in ParamLists }
      \cup { Descriptor("get_weather", rt, Url, ps, TRUE, {}) :
          rt \in RequestTypes, ps \in FewParamLists }

DescriptorNames == {"search_web", "end_call", "send_email", "get_weather", ""}

DropSets == { {}, {"enabled"}, {"name"}, {"requestUrl"}, {"description"},
              {"requestType"}, {"parameters"} }

\* descriptors exercising the registry: names, flags and missing fields
RegistryDescs ==
    { Descriptor(name, rt, url, <<Param(1, TRUE, {})>>, en, drop) :
          name \in DescriptorNames, rt \in {"GET", "BUILTIN"}, url \in {Url, ""},
          en \in BOOLEAN, drop \in DropSets }

\* descriptors beyond the ceiling of the factory, under every name
OverflowDescs ==
    { Descriptor(name, "GET", url, [i \in 1..(MaxParams + 1) |-> Param(i, TRUE, {})],
                 en, drop) :
          name \in DescriptorNames, url \in {Url, ""}, en \in BOOLEAN,
          drop \in { {}, {"description"} } }

\* config_loader.py: the two default tools
DEFAULT_SEARCH_WEB_TOOL ==
    [id |-> "search_web", name |-> "search_web",
     description |-> "Search the web using DuckDuckGo",
     requestType |-> "GET", requestUrl |-> "https://api.duckduckgo.com/",
     parameters |-> <<[name |-> "query", type |-> "string", required |-> TRUE,
                       description |-> "The search query", defaultValue |-> ""]>>,
     enabled |-> TRUE]

DEFAULT_END_CALL_TOOL ==
    [id |-> "end_call", name |-> "end_call",
     description |-> "End the current call/session when conversation is complete",
     requestType |-> "BUILTIN", requestUrl |-> "",
     parameters |-> <<[name |-> "reason", type |-> "string", required |-> FALSE,
                       description |-> "Reason for ending the call",
                       defaultValue |-> "Call completed"]>>,
     enabled |-> TRUE]

\* the descriptors mixed into longer sequences
MixedDescs ==
    { DEFAULT_SEARCH_WEB_TOOL,
      DEFAULT_END_CALL_TOOL,
      Descriptor("get_weather", "GET", Url, <<Param(1, TRUE, {})>>, TRUE, {}),
      Descriptor("get_weather", "POST", "https://api.example.com/v2", <<>>, TRUE, {"enabled"}),
      Descriptor("lookup", "GET", Url, <<Param(1, FALSE, {})>>, FALSE, {}),
      Descriptor("lookup", "GET", Url, <<>>, TRUE, {"description"}),
      Descriptor("lookup", "PUT", "", <<>>, TRUE, {}),
      Descriptor("lookup", "GET", Url, [i \in 1..(MaxParams + 1) |-> Param(i, FALSE, {})],
                 TRUE, {}),
      Descriptor("send_email", "BUILTIN", "", <<>>, FALSE, {}) }

RECURSIVE SeqsOfLen(_, _)
SeqsOfLen(S, n) ==
    IF n = 0 THEN { <<>> }
    ELSE { Append(q, d) : q \in SeqsOfLen(S, n - 1), d \in S }

Configs ==
    { <<>> }
      \cup { <<d>> : d \in FactoryDescs \cup RegistryDescs \cup OverflowDescs }
      \cup UNION { SeqsOfLen(MixedDescs, n) : n \in 2..MaxTools }

----------------------------------------------------------------------------
(* The configuration loader *)

DEFAULT_AGENT_INSTRUCTION ==
    "You are a helpful AI assistant.\n"
      \o "Speak in a professional and friendly manner.\n"
      \o "Be concise and clear in your responses.\n"
      \o "Use the available tools when needed to assist users effectively."

DEFAULT_BEGIN_MESSAGE == "Hello! I'm your AI assistant. How can I help you today?"

\* the dict load_configuration starts from
DefaultConfiguration ==
    [agentInstruction |-> DEFAULT_AGENT_INSTRUCTION,
     beginMessage |-> DEFAULT_BEGIN_MESSAGE,
     tools |-> <<DEFAULT_SEARCH_WEB_TOOL, DEFAULT_END_CALL_TOOL>>]

\* self.db is None: the store could not be initialised
NoStore == [db |-> FALSE, fetch |-> "none", doc |-> <<>>]
\* doc_ref.get() raises
FetchRaises == [db |-> TRUE, fetch |-> "raises", doc |-> <<>>]
\* doc.exists is false
NoDocument == [db |-> TRUE, fetch |-> "missing", doc |-> <<>>]
\* doc.exists is true and doc.to_dict() is doc
Stored(doc) == [db |-> TRUE, fetch |-> "found", doc |-> doc]

ConfigKeys == {"agentInstruction", "beginMessage", "tools"}

\* stored documents: every tool list alone, and every choice of keys around a
\* few tool lists
StoredDocuments ==
    { [tools |-> c] : c \in Configs }
      \cup { Restrict([agentInstruction |-> "Be brief.", beginMessage |-> "Hi.",
                       tools |-> c], keys) :
              c \in { <<>>,
                      <<Descriptor("lookup", "GET", Url, <<>>, FALSE, {})>>,
                      <<Descriptor("lookup", "GET", Url, <<>>, TRUE, {})>> },
              keys \in SUBSET ConfigKeys }

Stores == {NoStore, FetchRaises, NoDocument} \cup { Stored(doc) : doc \in StoredDocuments }

\* setdefault in place of update: a key the dict already has keeps its value
Update_KeepsExisting(d, other) ==
    [k \in DOMAIN d \cup DOMAIN other |-> IF k \in DOMAIN d THEN d[k] ELSE other[k]]

\* dict.update(other)
Update(d, other) ==
    [k \in DOMAIN d \cup DOMAIN other |-> IF k \in DOMAIN other THEN other[k] ELSE d[k]]

Loaded(cfg, log) == [result |-> "config", config |-> cfg, log |-> log]

\* the fetch outside the try block: its fault reaches the caller
load_configuration_FetchUnguarded(st) ==
    IF ~st.db
    THEN Loaded(DefaultConfiguration,
                <<LogRec("WARNING", "Firebase not available, using default configuration")>>)
    ELSE IF st.fetch = "raises"
    THEN Raised(Exc("Exception", "unavailable"), <<>>)
    ELSE IF st.fetch = "found"
    THEN Loaded(Update(DefaultConfiguration, st.doc),
                <<LogRec("INFO", "Configuration loaded from Firebase")>>)
    ELSE Loaded(DefaultConfiguration,
                <<LogRec("INFO", "No configuration found in Firebase, using defaults")>>)

\* ConfigurationLoader.load_configuration with the store in state st
load_configuration(st) ==
    IF ~st.db
    THEN Loaded(DefaultConfiguration,
                <<LogRec("WARNING", "Firebase not available, using default configuration")>>)
    ELSE IF st.fetch = "raises"
    THEN Loaded(DefaultConfiguration,
                <<LogRec("ERROR", "Error loading configuration from Firebase: unavailable")>>)
    ELSE IF st.fetch = "found"
    THEN Loaded(Update(DefaultConfiguration, st.doc),
                <<LogRec("INFO", "Configuration loaded from Firebase")>>)
    ELSE Loaded(DefaultConfiguration,
                <<LogRec("INFO", "No configuration found in Firebase, using defaults")>>)

\* a descriptor counts as enabled only when it says so
get_enabled_tools_DefaultFalse(tools) ==
    SelectSeq(tools, LAMBDA tool : Get(tool, "enabled", FALSE))

\* ConfigurationLoader.get_enabled_tools
get_enabled_tools(tools) ==
    SelectSeq(tools, LAMBDA tool : Get(tool, "enabled", TRUE))

----------------------------------------------------------------------------
(* The session: the configuration is loaded, the tool list is built once,   *)
(* then the runtime invokes tools                                           *)

Idle == [tool |-> 0, call |-> NoArguments]
            @@ Outcome(FALSE, "idle", "", NoExc, <<>>, <<>>, Unused, <<>>)

Invocation(t, call, outcome) == [tool |-> t, call |-> call] @@ outcome

TypeOK ==
    /\ pc \in {"start", "loaded", "crashed", "serving"}
    /\ store \in Stores
    /\ listed.called \in BOOLEAN
    /\ pending.tool \in 0..Len(dynamic_tools)
    /\ inv.outcome \in {"idle", "returned", "raised"}
    /\ inv.tool \in 0..Len(dynamic_tools)

NotListed == [called |-> FALSE, tools |-> <<>>]

\* no invocation is waiting
NoCall == [tool |-> 0, call |-> NoArguments, attempt |-> 0, returns |-> <<>>]
Listed(tools) == [called |-> TRUE, tools |-> tools]

Init ==
    /\ pc = "start"
    /\ store \in Stores
    /\ configuration = <<>>
    /\ listed = NotListed
    /\ pending = NoCall
    /\ tools_config = <<>>
    /\ dynamic_tools = <<>>
    /\ build_log = <<>>
    /\ inv = Idle

\* Assistant.__init__: config = config_loader.load_configuration()
LoadConfiguration ==
    /\ pc = "start"
    /\ LET loaded == load_configuration(store)
       IN  IF loaded.result = "config"
           THEN configuration' = loaded.config /\ pc' = "loaded"
           ELSE configuration' = configuration /\ pc' = "crashed"
    /\ UNCHANGED <<store, listed, tools_config, dynamic_tools, build_log, inv, pending>>

\* Assistant.__init__: dynamic_tools = get_dynamic_tools(config.get('tools', []))
GetDynamicTools ==
    /\ pc = "loaded"
    /\ \E cr \in CodeReplaceOutcomes :
          LET tools == Get(configuration, "tools", <<>>)
              built == get_dynamic_tools(tools, cr)
          IN  /\ tools_config' = tools
              /\ dynamic_tools' = built.tools
              /\ build_log' = built.log
    /\ pc' = "serving"
    /\ UNCHANGED <<store, configuration, listed, inv, pending>>

\* the enabled descriptors of the loaded tool list are asked for
GetEnabledTools ==
    /\ pc = "serving"
    /\ inv.outcome = "idle"
    /\ ~listed.called
    /\ listed' = Listed(get_enabled_tools(tools_config))
    /\ UNCHANGED <<store, configuration, tools_config, dynamic_tools, build_log, inv,
                   pending, pc>>

Ready == pc = "serving" /\ inv.outcome = "idle"

\* the runtime invokes a generated HTTP tool
InvokeDynamic ==
    /\ Ready
    /\ \E t \in 1..Len(dynamic_tools) :
          /\ dynamic_tools[t].fn.kind = "dynamic"
          /\ \E call \in Calls(Len(dynamic_tools[t].fn.parameters)),
                env \in HttpOutcomes :
                LET o == tool_function(dynamic_tools[t].fn, call, env)
                IN  \* an outcome that never consulted the network is recorded once
                    /\ o.env = Unused => env = Fault("")
                    /\ inv' = Invocation(t, call, o)
    /\ UNCHANGED <<store, configuration, listed, pc, tools_config, dynamic_tools, build_log,
                   pending>>

\* the hand-written tool of the given name, called
RunBuiltin(name, call, env) ==
    CASE name = "search_web" -> search_web(call, env)
      [] name = "end_call" -> end_call(call, env)
      [] name = "send_email" -> send_email(call, env)

\* the runtime invokes a hand-written tool
InvokeBuiltin(name, outcomes) ==
    /\ Ready
    /\ \E t \in 1..Len(dynamic_tools) :
          /\ dynamic_tools[t].fn.kind = "builtin"
          /\ dynamic_tools[t].fn.name = name
          /\ \E call \in Calls(Len(BuiltinSig(name))), env \in outcomes :
                LET o == RunBuiltin(name, call, env)
                IN  /\ o.env = Unused => env = CHOOSE e \in outcomes : TRUE
                    /\ inv' = Invocation(t, call, o)
    /\ UNCHANGED <<store, configuration, listed, pc, tools_config, dynamic_tools, build_log,
                   pending>>

InvokeSearchWeb == InvokeBuiltin("search_web", SearchOutcomes)
InvokeEndCall == InvokeBuiltin("end_call", EndCallOutcomes)
InvokeSendEmail == InvokeBuiltin("send_email", EmailOutcomes)

\* the runtime takes the result; the session waits for the next tool call
Deliver ==
    /\ pc = "serving"
    /\ inv.outcome # "idle"
    /\ inv' = Idle
    /\ UNCHANGED <<store, configuration, listed, pc, tools_config, dynamic_tools, build_log,
                   pending>>

Next ==
    \/ LoadConfiguration
    \/ GetDynamicTools
    \/ GetEnabledTools
    \/ InvokeDynamic
    \/ InvokeSearchWeb
    \/ InvokeEndCall
    \/ InvokeSendEmail
    \/ Deliver

Spec == Init /\ [][Next]_vars

----------------------------------------------------------------------------
(* The same session with an invocation in two steps: the handler is called *)
(* and issues its external call, then the external call completes or       *)
(* faults and the handler returns                                          *)

\* what the external call of a tool can answer
OutcomesOf(fn) ==
    IF fn.kind = "dynamic" THEN HttpOutcomes
    ELSE CASE fn.name = "search_web" -> SearchOutcomes
           [] fn.name = "end_call" -> EndCallOutcomes
           [] fn.name = "send_email" -> EmailOutcomes

\* the handler of a tool, called
Run(fn, call, env) ==
    IF fn.kind = "dynamic" THEN tool_function(fn, call, env)
    ELSE RunBuiltin(fn.name, call, env)

Arity(fn) ==
    IF fn.kind = "dynamic" THEN Len(fn.parameters) ELSE Len(BuiltinSig(fn.name))

Awaiting == pending.tool # 0

\* the runtime calls a tool: a call that ends before any external call (it does
\* not bind, it raises at once, its request type is unsupported) ends here;
\* any other waits for the external call.  The handler is a function of its
\* call and of what the external call answers: pending.returns tabulates it,
\* answer by answer, for the step that completes the call.
Call ==
    /\ Ready
    /\ ~Awaiting
    /\ \E t \in 1..Len(dynamic_tools) :
          \E call \in Calls(Arity(dynamic_tools[t].fn)) :
              LET fn == dynamic_tools[t].fn
                  probe == Run(fn, call, CHOOSE e \in OutcomesOf(fn) : TRUE)
              IN  IF probe.env = Unused
                  THEN inv' = Invocation(t, call, probe) /\ pending' = pending
                  ELSE /\ inv' = inv
                       /\ pending' = [tool |-> t, call |-> call, attempt |-> 1,
                                      returns |-> [env \in OutcomesOf(fn) |->
                                                      Run(fn, call, env)]]
    /\ UNCHANGED <<store, configuration, listed, pc, tools_config, dynamic_tools, build_log>>

\* a handler that calls again whenever the external call faults
Complete_Retrying ==
    /\ Awaiting
    /\ \E env \in DOMAIN pending.returns :
          IF env.kind = "fault"
          THEN inv' = inv /\ pending' = [pending EXCEPT !.attempt = 3 - @]
          ELSE /\ inv' = Invocation(pending.tool, pending.call, pending.returns[env])
               /\ pending' = NoCall
    /\ UNCHANGED <<store, configuration, listed, pc, tools_config, dynamic_tools, build_log>>

\* the external call completes or faults and the handler runs to its return
Complete ==
    /\ Awaiting
    /\ \E env \in DOMAIN pending.returns :
          /\ inv' = Invocation(pending.tool, pending.call, pending.returns[env])
          /\ pending' = NoCall
    /\ UNCHANGED <<store, configuration, listed, pc, tools_config, dynamic_tools, build_log>>

LiveNext ==
    \/ LoadConfiguration
    \/ GetDynamicTools
    \/ Call
    \/ Complete
    \/ Deliver

\* the stores of the two-step session: no store, and documents whose tools
\* cover the hand-written tools and generated tools of every shape of handler
LiveStores ==
    { NoStore }
      \cup { Stored([tools |-> c]) :
                c \in { <<Descriptor("get_weather", "GET", Url, <<Param(1, TRUE, {})>>,
                                     TRUE, {}),
                          Descriptor("get_weather", "POST", "https://api.example.com/v2",
                                     <<>>, TRUE, {"enabled"})>>,
                        <<Descriptor("get_weather", "PATCH", Url,
                                     [i \in 1..4 |-> Param(i, i = 1, {})], TRUE, {})>>,
                        <<Descriptor("get_weather", "PUT", Url,
                                     [i \in 1..4 |-> Param(i, i = 1, {})], TRUE, {}),
                          Descriptor("send_email", "BUILTIN", "", <<>>, TRUE, {})>> } }

LiveInit ==
    /\ pc = "start"
    /\ store \in LiveStores
    /\ configuration = <<>>
    /\ listed = NotListed
    /\ pending = NoCall
    /\ tools_config = <<>>
    /\ dynamic_tools = <<>>
    /\ build_log = <<>>
    /\ inv = Idle

\* the external call of a waiting invocation completes or faults
LiveSpec == LiveInit /\ [][LiveNext]_vars /\ WF_vars(Complete)

----------------------------------------------------------------------------
(* Reading the state *)

Built_ == pc = "serving"

\* the functions built from descriptor i, in list order
ToolsFrom(i) ==
    LET from == SelectSeq(dynamic_tools, LAMBDA t : t.src = i)
    IN  [j \in 1..Len(from) |-> from[j].fn]

\* a warning or an error was logged while descriptor i was handled
Diagnosed(i) ==
    \E j \in 1..Len(build_log) :
        build_log[j].src = i /\ build_log[j].rec.level \in {"WARNING", "ERROR"}

Enabled_(d) == Get(d, "enabled", TRUE)

\* an invocation of a generated HTTP tool is recorded in inv
DynamicInvoked == inv.outcome # "idle" /\ dynamic_tools[inv.tool].fn.kind = "dynamic"
BuiltinInvoked(name) ==
    inv.outcome # "idle" /\ dynamic_tools[inv.tool].fn = Builtin(name)
InvFn == dynamic_tools[inv.tool].fn
Answered == DynamicInvoked /\ inv.env.kind = "response"

----------------------------------------------------------------------------
(* Claims *)

\* C1: no tool in the list returned by get_dynamic_tools comes from a
\* descriptor whose `enabled` is false, whatever its name, and a descriptor
\* without an `enabled` field yields what it yields with `enabled: true`.
C1_DisabledNeverBuilt ==
    Built_ =>
        /\ \A t \in 1..Len(dynamic_tools) :
              LET d == tools_config[dynamic_tools[t].src]
              IN  "enabled" \in DOMAIN d => d["enabled"] = TRUE
        /\ \A i \in 1..Len(tools_config) :
              "enabled" \notin DOMAIN tools_config[i] =>
                  \E cr \in CodeReplaceOutcomes :
                      LET explicit == [k \in DOMAIN tools_config[i] \cup {"enabled"} |->
                                          IF k = "enabled" THEN TRUE ELSE tools_config[i][k]]
                          alone == get_dynamic_tools(<<explicit>>, cr).tools
                      IN  ToolsFrom(i) = [j \in 1..Len(alone) |-> alone[j].fn]

\* a disabled descriptor named like a built-in sits next to a descriptor
\* without `enabled` that did yield a tool
C1_Witness ==
    /\ Built_
    /\ \E i \in 1..Len(tools_config) :
          /\ "enabled" \in DOMAIN tools_config[i]
          /\ ~tools_config[i]["enabled"]
          /\ Get(tools_config[i], "name", "") \in BuiltinNames
    /\ \E t \in 1..Len(dynamic_tools) :
          "enabled" \notin DOMAIN tools_config[dynamic_tools[t].src]

\* C6: a 200 response whose body parses as JSON yields the JSON pretty-printed
\* with a 2-space indent, a 200 response whose body does not parse yields the
\* body text unchanged, and the result is never cut to the log's LogLimit.
C6_SuccessBody ==
    (Answered /\ inv.env.status_code = 200) =>
        /\ inv.outcome = "returned"
        /\ IF ParsesAsJson(inv.env.text)
           THEN inv.result = json_dumps(response_json(inv.env.text))
           ELSE inv.result = inv.env.text
        /\ inv.env.text = "{\"a\":1}" => inv.result = "{\n  \"a\": 1\n}"
        /\ inv.env.text = "[]" => inv.result = "[]"
        /\ inv.env.text = "ok" => inv.result = "ok"
        /\ Len(inv.env.text) > LogLimit => Len(inv.result) >= Len(inv.env.text)

\* a JSON body longer than the log limit came back pretty-printed and whole
C6_Witness ==
    /\ Answered
    /\ inv.env.status_code = 200
    /\ ParsesAsJson(inv.env.text)
    /\ Len(inv.env.text) > LogLimit
    /\ inv.result # inv.env.text
    /\ Len(inv.result) > LogLimit

\* C7: a response with any status other than 200, other 2xx included, yields
\* exactly "Error: HTTP {status} - {body}" with the body text as received.
C7_NonOkStatus ==
    (Answered /\ inv.env.status_code # 200) =>
        /\ inv.outcome = "returned"
        /\ inv.result = "Error: HTTP " \o ToString(inv.env.status_code)
                            \o " - " \o inv.env.text
        /\ (inv.env.status_code = 404 /\ inv.env.text = "not found")
              => inv.result = "Error: HTTP 404 - not found"
        /\ (inv.env.status_code = 201 /\ inv.env.text = "{\"a\":1}")
              => inv.result = "Error: HTTP 201 - {\"a\":1}"

\* a 201 response with a JSON body ended as the error string
C7_Witness ==
    /\ Answered
    /\ inv.env.status_code = 201
    /\ ParsesAsJson(inv.env.text)
    /\ inv.result = "Error: HTTP 201 - {\"a\":1}"

\* C5 as stated: every outbound request uses the method named by requestType
\* and carries the mapping as query parameters for GET and DELETE and as a
\* JSON body for POST and PUT, for every arity 0..5.  (A request without
\* query parameters is the request with the empty mapping as query
\* parameters; a request without a body is not the request with body "{}".)
C5_PayloadPosition ==
    DynamicInvoked =>
        \A k \in 1..Len(inv.effects) :
            LET e == inv.effects[k]
            IN  /\ e.method = Upper(InvFn.request_type)
                /\ IF e.method \in {"GET", "DELETE"}
                   THEN Get(e, "params", <<>>) = inv.data /\ "json" \notin DOMAIN e
                   ELSE /\ "json" \in DOMAIN e
                        /\ e["json"] = inv.data
                        /\ "params" \notin DOMAIN e

\* C5 amended: the method is the one named by requestType; with 1..5
\* parameters the mapping travels as query parameters for GET and DELETE and
\* as a JSON body for POST and PUT, never in the other position; with 0
\* parameters the request carries neither query parameters nor a body.
C5_PayloadPositionByArity ==
    DynamicInvoked =>
        \A k \in 1..Len(inv.effects) :
            LET e == inv.effects[k]
            IN  /\ e.method = Upper(InvFn.request_type)
                /\ e.url = InvFn.request_url
                /\ IF Len(InvFn.parameters) = 0
                   THEN DOMAIN e \cap {"params", "json"} = {}
                   ELSE IF e.method \in {"GET", "DELETE"}
                   THEN /\ "params" \in DOMAIN e
                        /\ e["params"] = inv.data
                        /\ "json" \notin DOMAIN e
                   ELSE /\ "json" \in DOMAIN e
                        /\ e["json"] = inv.data
                        /\ "params" \notin DOMAIN e

\* a POST tool with five parameters sent its mapping as the JSON body
C5_Witness ==
    /\ DynamicInvoked
    /\ Len(InvFn.parameters) = 5
    /\ Len(inv.effects) = 1
    /\ inv.effects[1].method = "POST"
    /\ "json" \in DOMAIN inv.effects[1]
    /\ Len(inv.effects[1]["json"]) = 5
    /\ inv.call.supplied # {}

\* C2: an invocation whose body is entered never raises, however the runtime
\* supplied the arguments, and a transport fault ends as the string
\* "An error occurred while using {tool_name}: {fault}".
C2_NeverRaises ==
    (DynamicInvoked /\ inv.entered) =>
        /\ inv.outcome = "returned"
        /\ inv.env.kind = "fault" =>
              inv.result = "An error occurred while using " \o InvFn.tool_name
                               \o ": " \o inv.env.text

\* C3: the callable built for a descriptor with 0..5 parameters declares
\* parameter i without a default exactly when it is required, and otherwise
\* with the default parameters[i].defaultValue (empty string if unset).
C3_SignatureMatchesFlags ==
    Built_ =>
        \A t \in 1..Len(dynamic_tools) :
            LET fn == dynamic_tools[t].fn
            IN  (fn.kind = "dynamic" /\ Len(fn.parameters) <= MaxParams) =>
                    /\ ~fn.sig.variadic
                    /\ Len(fn.sig.formals) = Len(fn.parameters)
                    /\ \A i \in 1..Len(fn.sig.formals) :
                          LET f == fn.sig.formals[i]
                              p == fn.parameters[i]
                          IN  /\ f.hasDefault = ~Get(p, "required", FALSE)
                              /\ f.hasDefault =>
                                    f.default = Str(Get(p, "defaultValue", ""))

\* C4: an enabled, named descriptor whose requestType is not BUILTIN and
\* whose requestUrl is empty or absent yields no callable, whatever its name,
\* and a diagnostic is recorded for it.
C4_MissingUrlSkipped ==
    Built_ =>
        \A i \in 1..Len(tools_config) :
            LET d == tools_config[i]
            IN  (/\ Enabled_(d)
                 /\ Truthy(Get(d, "name", ""))
                 /\ "requestType" \in DOMAIN d
                 /\ d["requestType"] # "BUILTIN"
                 /\ ~Truthy(Get(d, "requestUrl", ""))) =>
                    ToolsFrom(i) = <<>> /\ Diagnosed(i)

\* C8: an enabled, named BUILTIN descriptor resolves by name to search_web,
\* end_call or send_email; under any other name it yields no callable and a
\* diagnostic is recorded, whatever its requestUrl.
C8_BuiltinResolvedByName ==
    Built_ =>
        \A i \in 1..Len(tools_config) :
            LET d == tools_config[i]
                name == Get(d, "name", "")
            IN  (Enabled_(d) /\ Truthy(name) /\ Get(d, "requestType", "") = "BUILTIN") =>
                    IF name \in BuiltinNames
                    THEN ToolsFrom(i) = <<Builtin(name)>>
                    ELSE ToolsFrom(i) = <<>> /\ Diagnosed(i)

\* C9: when the farewell was spoken and every shutdown attempt that fails
\* fails because the session or room is already gone, end_call returns
\* "Call ended: {reason}. Goodbye!".
C9_GoneIsSuccess ==
    (/\ BuiltinInvoked("end_call")
     /\ inv.outcome = "returned"
     /\ inv.env.farewell = "ok"
     /\ inv.env.shutdown1 = "gone"
     /\ inv.env.shutdown2 \in {"ok", "gone"}) =>
        inv.result = "Call ended: "
                         \o (IF 1 \in inv.call.supplied THEN ArgValue(1)
                             ELSE "Call completed")
                         \o ". Goodbye!"

\* C10: an invocation that omits a required parameter fails on the caller's
\* side and issues no HTTP request.
C10_OmittedRequiredFails ==
    (/\ DynamicInvoked
     /\ \E i \in 1..Len(InvFn.parameters) :
           /\ Get(InvFn.parameters[i], "required", FALSE)
           /\ i \notin inv.call.supplied) =>
        inv.outcome = "raised" /\ inv.effects = <<>>

\* C11: a descriptor whose name is missing or empty is absent from the output
\* of get_enabled_tools, yields no tool in get_dynamic_tools, and (when it is
\* enabled) leaves a diagnostic in the log.
C11_NamelessSkipped ==
    Built_ =>
        \A i \in 1..Len(tools_config) :
            LET d == tools_config[i]
            IN  ~Truthy(Get(d, "name", "")) =>
                    /\ ToolsFrom(i) = <<>>
                    /\ Enabled_(d) => Diagnosed(i)
                    /\ listed.called =>
                          \A k \in 1..Len(listed.tools) : listed.tools[k] # d

\* the tools get_dynamic_tools builds from descriptor d alone
Alone(d, cr) ==
    LET built == get_dynamic_tools(<<d>>, cr).tools
    IN  [j \in 1..Len(built) |-> built[j].fn]

\* an enabled, named descriptor that cannot be turned into a tool: no URL, more
\* parameters than the factory handles, BUILTIN under a name that is not a
\* hand-written tool, or no description or requestType
Broken(d) ==
    /\ Enabled_(d)
    /\ Truthy(Get(d, "name", ""))
    /\ Get(d, "name", "") \notin BuiltinNames
    /\ \/ ~Truthy(Get(d, "requestUrl", ""))
       \/ Len(Get(d, "parameters", <<>>)) > MaxParams
       \/ Get(d, "requestType", "") = "BUILTIN"
       \/ "description" \notin DOMAIN d
       \/ "requestType" \notin DOMAIN d

\* C12: a descriptor that cannot be turned into a tool yields no tool and a
\* diagnostic, and every descriptor of the sequence yields exactly what it
\* yields alone, whatever the descriptors around it.
C12_BrokenSkippedOthersLoad ==
    Built_ =>
        /\ \A i \in 1..Len(tools_config) :
              Broken(tools_config[i]) => ToolsFrom(i) = <<>> /\ Diagnosed(i)
        /\ \E cr \in CodeReplaceOutcomes :
              \A i \in 1..Len(tools_config) : ToolsFrom(i) = Alone(tools_config[i], cr)

OverCeiling(d) == Len(Get(d, "parameters", <<>>)) > MaxParams

\* the fields create_dynamic_tool reads with tool_config[...]
Mandatory == {"name", "description", "requestType", "requestUrl"}

\* create_dynamic_tool returned None for d after logging the parameter count
Overflow(d, built) ==
    /\ built.result = "None"
    /\ \E j \in 1..Len(built.log) :
          /\ built.log[j].level = "WARNING"
          /\ built.log[j].msg =
                "Tool " \o d["name"] \o " has "
                    \o ToString(Len(d["parameters"])) \o " parameters which may cause issues"

StoreFailed == store.fetch # "found"

\* C14: load_configuration never raises, and when the store handle is absent,
\* the fetch raises or the document does not exist it returns the default
\* instruction, the default begin message and the tools search_web, end_call
\* in that order, from which get_dynamic_tools builds exactly the two
\* hand-written tools search_web and end_call.
C14_DefaultsWhenStoreFails ==
    /\ pc # "crashed"
    /\ (pc # "start" /\ StoreFailed) =>
          /\ DOMAIN configuration = ConfigKeys
          /\ configuration["agentInstruction"] = DEFAULT_AGENT_INSTRUCTION
          /\ configuration["beginMessage"] = DEFAULT_BEGIN_MESSAGE
          /\ configuration["tools"] = <<DEFAULT_SEARCH_WEB_TOOL, DEFAULT_END_CALL_TOOL>>
    /\ (Built_ /\ StoreFailed) =>
          /\ Len(dynamic_tools) = 2
          /\ dynamic_tools[1].fn = Builtin("search_web")
          /\ dynamic_tools[2].fn = Builtin("end_call")

\* the fetch raised and the session serves the two default tools
C14_Witness ==
    /\ Built_
    /\ store = FetchRaises
    /\ Len(dynamic_tools) = 2
    /\ dynamic_tools[2].fn = Builtin("end_call")

\* descriptors i < j of the loaded list are enabled and share a non-empty name
SameName(i, j) ==
    /\ i < j
    /\ Enabled_(tools_config[i]) /\ Enabled_(tools_config[j])
    /\ Truthy(Get(tools_config[i], "name", ""))
    /\ Get(tools_config[i], "name", "") = Get(tools_config[j], "name", "")

\* the positions of dynamic_tools holding a tool of the given name
Named(name) == { t \in 1..Len(dynamic_tools) : dynamic_tools[t].fn.name = name }

\* C15 as stated: when two enabled descriptors share a name and the later one
\* can be built, the tool list holds exactly one tool of that name, the one
\* built from the later descriptor.
C15_SecondWins ==
    Built_ =>
        \A i, j \in 1..Len(tools_config) :
            (/\ SameName(i, j)
             /\ \A k \in (j + 1)..Len(tools_config) : ~SameName(j, k)
             /\ \A cr \in CodeReplaceOutcomes : Alone(tools_config[j], cr) # <<>>) =>
                \E t \in 1..Len(dynamic_tools) :
                    Named(tools_config[j]["name"]) = {t} /\ dynamic_tools[t].src = j

\* C15 amended: get_dynamic_tools keeps no registry by name.  Two enabled
\* descriptors sharing a name each contribute what they would contribute
\* alone, the earlier one's tool before the later one's, so the list holds as
\* many tools of that name as there are descriptors of that name that build.
C15_DuplicatesKept ==
    Built_ =>
        \E cr \in CodeReplaceOutcomes :
            \A i, j \in 1..Len(tools_config) :
                SameName(i, j) =>
                    /\ ToolsFrom(i) = Alone(tools_config[i], cr)
                    /\ ToolsFrom(j) = Alone(tools_config[j], cr)
                    /\ \A s, t \in 1..Len(dynamic_tools) :
                          (dynamic_tools[s].src = i /\ dynamic_tools[t].src = j) => s < t
                    /\ Cardinality(Named(tools_config[i]["name"])) =
                          Cardinality({ k \in 1..Len(tools_config) :
                               /\ Get(tools_config[k], "name", "") = tools_config[i]["name"]
                               /\ Alone(tools_config[k], cr) # <<>> })

\* two enabled get_weather descriptors with different methods and URLs were
\* loaded and the list holds both tools, the earlier descriptor's first
C15_Witness ==
    /\ Built_
    /\ Len(tools_config) >= 2
    /\ SameName(1, 2)
    /\ Len(dynamic_tools) >= 2
    /\ dynamic_tools[1].src = 1 /\ dynamic_tools[2].src = 2
    /\ dynamic_tools[1].fn.kind = "dynamic" /\ dynamic_tools[2].fn.kind = "dynamic"
    /\ dynamic_tools[1].fn.name = dynamic_tools[2].fn.name
    /\ dynamic_tools[1].fn.request_url # dynamic_tools[2].fn.request_url

\* the positions of the loaded list whose `enabled` is true or absent
EnabledAt ==
    { i \in 1..Len(tools_config) :
          "enabled" \notin DOMAIN tools_config[i] \/ tools_config[i]["enabled"] = TRUE }

\* the k-th smallest element of a set of positions
Kth(S, k) == CHOOSE i \in S : Cardinality({ j \in S : j <= i }) = k

\* C16: get_enabled_tools returns the descriptors whose `enabled` is true or
\* absent, each once, in input order, and the tools of get_dynamic_tools stand
\* in the order of the descriptors they were built from.
C16_OrderPreserved ==
    /\ listed.called =>
          /\ Len(listed.tools) = Cardinality(EnabledAt)
          /\ \A k \in 1..Len(listed.tools) :
                listed.tools[k] = tools_config[Kth(EnabledAt, k)]
    /\ Built_ =>
          \A s, t \in 1..Len(dynamic_tools) :
              s < t => dynamic_tools[s].src < dynamic_tools[t].src

\* a disabled descriptor followed by one without the field: the second alone is
\* listed, and it alone was built
C16_Witness ==
    /\ listed.called
    /\ Len(tools_config) = 2
    /\ "enabled" \in DOMAIN tools_config[1] /\ ~tools_config[1]["enabled"]
    /\ "enabled" \notin DOMAIN tools_config[2]
    /\ listed.tools = <<tools_config[2]>>
    /\ Len(dynamic_tools) = 1 /\ dynamic_tools[1].src = 2

\* the mapping carried by the request of the recorded invocation
SentMapping ==
    LET request == inv.effects[1]
    IN  IF "params" \in DOMAIN request THEN request.params
        ELSE IF "json" \in DOMAIN request THEN request.json
        ELSE <<>>

\* C17: when an invocation of a generated tool reaches the request, the
\* mapping sent has one entry per descriptor parameter, in order, keyed by the
\* parameter's name; its value is the caller's argument when the caller
\* supplied one, positionally or by keyword, and the defaultValue of an
\* optional parameter the caller left out.
C17_MappingCarriesArguments ==
    (DynamicInvoked /\ inv.effects # <<>>) =>
        LET parameters == InvFn.parameters
        IN  /\ Len(SentMapping) = Len(parameters)
            /\ \A i \in 1..Len(parameters) :
                  /\ SentMapping[i][1] = parameters[i]["name"]
                  /\ i \in inv.call.supplied => SentMapping[i][2] = Str(ArgValue(i))
                  /\ (i \notin inv.call.supplied
                        /\ ~Get(parameters[i], "required", FALSE)) =>
                       SentMapping[i][2] = Str(Get(parameters[i], "defaultValue", ""))

\* C18: a tool built from a descriptor with 0 to 5 parameters declares, after
\* the context, one formal parameter per descriptor parameter, in order, and
\* the formal at position i bears the name of parameter i.
C18_FormalsNamedAfterParameters ==
    Built_ =>
        \A t \in 1..Len(dynamic_tools) :
            LET fn == dynamic_tools[t].fn
            IN  (fn.kind = "dynamic" /\ Len(fn.parameters) <= MaxParams) =>
                    /\ ~fn.sig.variadic
                    /\ Len(fn.sig.formals) = Len(fn.parameters)
                    /\ \A i \in 1..Len(fn.parameters) :
                          fn.sig.formals[i].name = fn.parameters[i]["name"]

\* C19 as stated: every invocation of a generated tool issues exactly one HTTP
\* request.
C19_ExactlyOneRequest ==
    DynamicInvoked => Len(inv.effects) = 1

\* C19 amended: an invocation of a generated tool issues at most one HTTP
\* request, with no second attempt after a fault or a status other than 200:
\* exactly one when the handler returns and requestType is GET, POST, PUT or
\* DELETE in any letter case, none when requestType is anything else or the
\* call raises before the dispatch.
C19_AtMostOneRequest ==
    DynamicInvoked =>
        /\ Len(inv.effects) <= 1
        /\ Len(inv.effects) = 1 <=>
              (inv.outcome = "returned" /\ Upper(InvFn.request_type) \in HttpMethods)
        /\ \A k \in 1..Len(inv.effects) : inv.effects[k].op = "http"

\* the network faulted, or answered with a status other than 200, and the
\* handler returned after its one request
C19_Witness ==
    /\ DynamicInvoked
    /\ inv.outcome = "returned"
    /\ inv.env.kind = "fault" \/ (inv.env.kind = "response" /\ inv.env.status_code = 500)
    /\ Len(inv.effects) = 1

\* C20: when requestType is none of GET, POST, PUT, DELETE in any letter case,
\* every invocation whose body is entered returns "Unsupported request type: "
\* followed by the descriptor's requestType as written, issues no HTTP request
\* and does not raise.
C20_UnsupportedTypeReturned ==
    (/\ DynamicInvoked
     /\ inv.entered
     /\ Upper(InvFn.request_type) \notin HttpMethods) =>
        /\ inv.outcome = "returned"
        /\ inv.result = "Unsupported request type: " \o InvFn.request_type
        /\ inv.effects = <<>>

\* the positions of the recorded effects that are requests of the given kind
Requests(op) == { k \in 1..Len(inv.effects) : inv.effects[k].op = op }

\* an execution of end_call is recorded in inv
EndCallRan == BuiltinInvoked("end_call") /\ inv.entered

\* C21: in every execution of end_call the farewell is requested from the
\* agent runtime, and every shutdown request comes after it.
C21_FarewellBeforeShutdown ==
    EndCallRan =>
        /\ Requests("generate_reply") = {1}
        /\ \A k \in Requests("shutdown") : k > 1

\* end_call ran to its goodbye: the farewell, then the one shutdown
C21_Witness ==
    /\ EndCallRan
    /\ inv.env.farewell = "ok" /\ inv.env.shutdown1 = "ok"
    /\ Len(inv.effects) = 2
    /\ inv.effects[1].op = "generate_reply"
    /\ inv.effects[2].op = "shutdown"

\* the descriptor the tool at position t was built from
Own(t) == tools_config[dynamic_tools[t].src]

\* C22: every generated tool holds the method, URL and parameters of its own
\* descriptor and is the tool that descriptor builds alone, whatever other
\* tools were built beside it and whichever tools were invoked before; the
\* loaded descriptors stay what the configuration holds; and the request of an
\* invocation carries its own descriptor's method, URL, parameter names and
\* defaults.
C22_ToolsIndependent ==
    Built_ =>
        /\ tools_config = Get(configuration, "tools", <<>>)
        /\ \A t \in 1..Len(dynamic_tools) :
              dynamic_tools[t].fn.kind = "dynamic" =>
                  /\ dynamic_tools[t].fn.request_type = Own(t)["requestType"]
                  /\ dynamic_tools[t].fn.request_url = Own(t)["requestUrl"]
                  /\ dynamic_tools[t].fn.parameters = Get(Own(t), "parameters", <<>>)
                  /\ \E cr \in CodeReplaceOutcomes :
                        <<dynamic_tools[t].fn>> = Alone(Own(t), cr)
        /\ (DynamicInvoked /\ inv.effects # <<>>) =>
              LET d == Own(inv.tool)
                  parameters == Get(d, "parameters", <<>>)
                  request == inv.effects[1]
              IN  /\ request.method = Upper(d["requestType"])
                  /\ request.url = d["requestUrl"]
                  /\ parameters # <<>> =>
                        /\ Len(SentMapping) = Len(parameters)
                        /\ \A i \in 1..Len(parameters) :
                              /\ SentMapping[i][1] = parameters[i]["name"]
                              /\ SentMapping[i][2] \in
                                    { Str(ArgValue(i)), None,
                                      Str(Get(parameters[i], "defaultValue", "")) }

\* two generated tools with different methods and URLs stand side by side and
\* the second was invoked: its request went to its own URL
C22_Witness ==
    /\ Built_
    /\ Len(dynamic_tools) >= 2
    /\ dynamic_tools[1].fn.kind = "dynamic" /\ dynamic_tools[2].fn.kind = "dynamic"
    /\ dynamic_tools[1].fn.request_url # dynamic_tools[2].fn.request_url
    /\ dynamic_tools[1].fn.request_type # dynamic_tools[2].fn.request_type
    /\ DynamicInvoked /\ inv.tool = 2
    /\ inv.effects # <<>>
    /\ inv.effects[1].url = tools_config[dynamic_tools[2].src]["requestUrl"]

\* the waiting invocation has ended with a string handed back to the runtime
Ended == ~Awaiting /\ inv.outcome = "returned"

\* C23: an invocation waiting for its HTTP call or built-in action ends with a
\* returned string once that call completes or faults: nothing in the handler
\* keeps it waiting after the external call has finished.
C23_InvocationEnds == Awaiting ~> Ended

\* the HTTP call of a generated tool faulted and the handler returned its text
C23_Witness ==
    /\ Ended
    /\ DynamicInvoked
    /\ inv.env.kind = "fault"
    /\ inv.result = "An error occurred while using " \o InvFn.tool_name
                        \o ": " \o inv.env.text

NamedBuiltin ==
    { i \in EnabledAt : Get(tools_config[i], "name", "") \in BuiltinNames }

\* C25: every enabled descriptor named search_web, end_call or send_email yields
\* exactly the hand-written tool of that name, whatever its requestType,
\* requestUrl and parameters are, and nothing of create_dynamic_tool is recorded
\* for it: no generated tool and no log record.
C25_NameAloneSelectsBuiltin ==
    Built_ =>
        \A i \in NamedBuiltin :
            /\ ToolsFrom(i) = <<Builtin(tools_config[i]["name"])>>
            /\ \A j \in 1..Len(build_log) : build_log[j].src # i

\* an enabled descriptor named send_email with an HTTP method, a URL and more
\* parameters than the factory accepts gave the hand-written send_email
C25_Witness ==
    /\ Built_
    /\ \E i \in NamedBuiltin :
          /\ tools_config[i]["name"] = "send_email"
          /\ Get(tools_config[i], "requestType", "") = "GET"
          /\ Get(tools_config[i], "requestUrl", "") = Url
          /\ OverCeiling(tools_config[i])
          /\ ToolsFrom(i) = <<Builtin("send_email")>>

\* a stored document was found and load_configuration has returned
StoredLoaded == pc # "start" /\ store.db /\ store.fetch = "found"

\* no descriptor of the list passes the `enabled` filter
NoneEnabled(tools) == \A i \in 1..Len(tools) : ~Get(tools[i], "enabled", TRUE)

\* C26: with a stored document the configuration holds, for each key, the
\* document's value when the document has the key and the default otherwise;
\* and when the stored tools list is empty or holds only disabled descriptors
\* get_dynamic_tools returns no tool at all, the default tools included.
C26_StoredOverridesKeyByKey ==
    /\ StoredLoaded =>
          /\ DOMAIN configuration = ConfigKeys \cup DOMAIN store.doc
          /\ \A k \in DOMAIN configuration :
                configuration[k] = IF k \in DOMAIN store.doc
                                   THEN store.doc[k] ELSE DefaultConfiguration[k]
    /\ (/\ StoredLoaded /\ Built_
        /\ "tools" \in DOMAIN store.doc
        /\ NoneEnabled(store.doc["tools"])) =>
          /\ tools_config = store.doc["tools"]
          /\ dynamic_tools = <<>>

\* a document that omits beginMessage and stores one disabled descriptor: the
\* default greeting is kept, the stored instruction is used, and no tool is built
C26_Witness ==
    /\ StoredLoaded /\ Built_
    /\ DOMAIN store.doc = {"agentInstruction", "tools"}
    /\ Len(store.doc["tools"]) = 1
    /\ NoneEnabled(store.doc["tools"])
    /\ configuration["beginMessage"] = DEFAULT_BEGIN_MESSAGE
    /\ configuration["agentInstruction"] = "Be brief."
    /\ dynamic_tools = <<>>

====
